---- MODULE Spec2Model ----
(***************************************************************************)
(* The RVL coordinator of src/index.ts: the process-wide creation flag,    *)
(* the single RVL instance, its public operations, and the callbacks the   *)
(* instance registers with the bridge.  JavaScript is single-threaded, so  *)
(* every method call and every callback runs to completion: one action     *)
(* each.  The bridge (./bridge, not part of src/) is the environment: it   *)
(* holds the callbacks it was handed and may invoke them.                  *)
(***************************************************************************)
EXTENDS Integers, Sequences, FiniteSets, TLC

(* ---------------------------- bounds ----------------------------------- *)
\* longest wave array an application passes to setWaveParameters
MaxInputLen == 9
\* number of notifications the bridge delivers to the receive handlers
MaxDeliveries == 2
\* number of times the bridge invokes the init callback
MaxReady == 2

(* ------------------- what ./bridge exports ----------------------------- *)
MAX_NUM_WAVES == 8
DEFAULT_TIME_PERIOD == 255
DEFAULT_DISTANCE_PERIOD == 32

\* a wave is an opaque record; it is modelled by a small number, 0 being
\* the value createEmptyWave() returns
createEmptyWave == 0

createEmptyWaveParameters ==
  [waves |-> [i \in 1..MAX_NUM_WAVES |-> createEmptyWave],
   timePeriod |-> DEFAULT_TIME_PERIOD,
   distancePeriod |-> DEFAULT_DISTANCE_PERIOD]

(* ------------------------- JavaScript values --------------------------- *)
\* the value `undefined` of a numeric property
Undefined == -1

\* a field the constructor has not assigned yet
UnsetWaveParameters ==
  [waves |-> << >>, timePeriod |-> Undefined, distancePeriod |-> Undefined]

\* the messages of the errors the code throws; "ok" is a normal return
ErrAlreadyCreated == "Currently the RVL class can only be instantiated once per process."
ErrNotInitialized == "Cannot call until the platform has been initialized"
ErrWrongRole == "Cannot set wave parameters while in receiver mode"
ErrTooManyWaves == "Only MAX_NUM_WAVES waves are supported at a time"
Ok == "ok"

(* ------------------------------ inputs --------------------------------- *)
\* IRVLOptions.mode; "undefined" takes the default of the constructor
ModeArgs == {"controller", "receiver", "undefined"}

\* a wave array of length n whose entries differ by position and include the
\* empty wave; variant 0 leaves out timePeriod, variant 1 distancePeriod
Input(n, k) ==
  [waves |-> [i \in 1..n |-> (i + k) % 3],
   timePeriod |-> IF k = 0 THEN Undefined ELSE 5,
   distancePeriod |-> IF k = 0 THEN 7 ELSE Undefined]

\* the arguments of setWaveParameters: every length up to MaxInputLen in both
\* variants, one argument with both periods and one with neither
InputParameters ==
  {Input(n, k) : n \in 0..MaxInputLen, k \in 0..1}
    \cup {[waves |-> <<2, 1>>, timePeriod |-> 5, distancePeriod |-> 7],
          [waves |-> <<1>>, timePeriod |-> Undefined, distancePeriod |-> Undefined]}

\* the wave parameters the bridge reports from the network
InboundWaveParameters ==
  {[waves |-> [i \in 1..MAX_NUM_WAVES |-> 1], timePeriod |-> 10, distancePeriod |-> 20],
   [waves |-> [i \in 1..MAX_NUM_WAVES |-> IF i = 1 THEN 2 ELSE 0],
    timePeriod |-> DEFAULT_TIME_PERIOD, distancePeriod |-> 20]}

\* the brightness values passed around
BrightnessValues == {0, 200}

(* ------------------------------- state --------------------------------- *)
VARIABLES
  created,         \* the module-level flag `created`
  instance,        \* TRUE once a constructor call has returned an RVL object
  isInitialized,   \* RVL._isInitialized
  waveParameters,  \* RVL._waveParameters
  mode,            \* RVL._mode
  brightness,      \* RVL._brightness
  powerState,      \* RVL._powerState
  handlerRegs,     \* bridge: how often each listenFor* was called
  initCalls,       \* bridge: how often init() was called
  delivered,       \* bridge: what it has passed to each callback, in order
  published,       \* what the instance has emitted, per event, in order
  lastOp,          \* the operation or callback that ran last
  args,            \* the arguments it was called with
  result,          \* how it ended: Ok or the error it threw
  bridgeCalls,     \* the bridge functions it called, in order
  emitted,         \* the events it emitted, in order
  sharedWithBridge,\* the bridge has a reference to the object _waveParameters
                   \* names: it was passed to a bridge function, or the bridge
                   \* passed it in and kept it, which is for the bridge to choose
  wavesArray,      \* which array _waveParameters.waves is
  callerWaves      \* the array the last operation was passed, as it is when
                   \* the operation ends; empty when it was passed none

fields == <<isInitialized, waveParameters, mode, brightness, powerState>>
bridge == <<handlerRegs, initCalls, delivered>>
refs == <<sharedWithBridge, wavesArray>>
vars == <<created, instance, isInitialized, waveParameters, mode, brightness,
          powerState, handlerRegs, initCalls, delivered, published, lastOp,
          args, result, bridgeCalls, emitted, sharedWithBridge, wavesArray,
          callerWaves>>

\* a call of a bridge function; init is _isInitialized at the time of the call
BridgeCall(op, wp, b, n, init) ==
  [op |-> op, wp |-> wp, b |-> b, n |-> n, init |-> init]

\* an emitted event; init is _isInitialized at the time of the emit
Event(ev, wp, b, n, init) ==
  [ev |-> ev, wp |-> wp, b |-> b, n |-> n, init |-> init]

NoDeliveries ==
  [ready |-> 0, waveParameters |-> << >>, powerState |-> << >>, brightness |-> << >>]

NumDeliveries ==
  Len(delivered.waveParameters) + Len(delivered.powerState) + Len(delivered.brightness)

Init ==
  /\ created = FALSE
  /\ instance = FALSE
  /\ isInitialized = FALSE
  /\ waveParameters = UnsetWaveParameters
  /\ mode = "undefined"
  /\ brightness = 0
  /\ powerState = FALSE
  /\ handlerRegs = [waveParameters |-> 0, powerState |-> 0, brightness |-> 0]
  /\ initCalls = 0
  /\ delivered = NoDeliveries
  /\ published = NoDeliveries
  /\ lastOp = "load"
  /\ args = << >>
  /\ result = Ok
  /\ bridgeCalls = << >>
  /\ emitted = << >>
  /\ sharedWithBridge = FALSE
  /\ wavesArray = "unset"
  /\ callerWaves = << >>

(* ----------------------------- constructor ----------------------------- *)
\* `mode = 'receiver'` in the parameter list
DefaultMode(m) == IF m = "undefined" THEN "receiver" ELSE m

\* the constructor past the `created` check: the fields, the three
\* listenFor* registrations and the call of init
FirstConstruction(m) ==
  /\ created' = TRUE
  /\ mode' = DefaultMode(m)
  /\ waveParameters' = createEmptyWaveParameters
  /\ handlerRegs' = [k \in DOMAIN handlerRegs |-> handlerRegs[k] + 1]
  /\ initCalls' = initCalls + 1
  /\ bridgeCalls' =
       << BridgeCall("listenForWaveParameterUpdates", UnsetWaveParameters, FALSE, 0, isInitialized),
          BridgeCall("listenForPowerStateUpdates", UnsetWaveParameters, FALSE, 0, isInitialized),
          BridgeCall("listenForBrightnessUpdates", UnsetWaveParameters, FALSE, 0, isInitialized),
          BridgeCall("init", UnsetWaveParameters, FALSE, 0, isInitialized) >>
  /\ instance' = TRUE
  /\ result' = Ok
  /\ sharedWithBridge' = FALSE
  /\ wavesArray' = "created"
  /\ UNCHANGED <<isInitialized, brightness, powerState>>

\* a constructor that does not look at `created`
Construct_Unguarded(m) ==
  /\ lastOp' = "constructor"
  /\ args' = << m >>
  /\ emitted' = << >>
  /\ callerWaves' = << >>
  /\ UNCHANGED <<delivered, published>>
  /\ FirstConstruction(m)

\* new RVL({ mode: m, ... })
Construct(m) ==
  /\ lastOp' = "constructor"
  /\ args' = << m >>
  /\ emitted' = << >>
  /\ callerWaves' = << >>
  /\ UNCHANGED <<delivered, published>>
  /\ IF created
       THEN /\ result' = ErrAlreadyCreated
            /\ bridgeCalls' = << >>
            /\ UNCHANGED <<created, instance, fields, handlerRegs, initCalls, refs>>
       ELSE FirstConstruction(m)

(* ------------------- callbacks the bridge invokes ---------------------- *)
\* an init callback that sets the lifecycle before it pushes
InitCallback_SetsFirst ==
  /\ initCalls > 0
  /\ delivered.ready < MaxReady
  /\ delivered' = [delivered EXCEPT !.ready = @ + 1]
  /\ isInitialized' = TRUE
  /\ bridgeCalls' = << BridgeCall("setWaveParameters", waveParameters, FALSE, 0, isInitialized') >>
  /\ emitted' = << Event("initialized", UnsetWaveParameters, FALSE, 0, isInitialized') >>
  /\ published' = [published EXCEPT !.ready = @ + 1]
  /\ lastOp' = "initCallback"
  /\ args' = << >>
  /\ result' = Ok
  /\ sharedWithBridge' = TRUE
  /\ callerWaves' = << >>
  /\ UNCHANGED <<created, instance, waveParameters, mode, brightness, powerState,
                 handlerRegs, initCalls, wavesArray>>

\* an init callback that emits before it sets the lifecycle
InitCallback_EmitsFirst ==
  /\ initCalls > 0
  /\ delivered.ready < MaxReady
  /\ delivered' = [delivered EXCEPT !.ready = @ + 1]
  /\ bridgeCalls' = << BridgeCall("setWaveParameters", waveParameters, FALSE, 0, isInitialized) >>
  /\ emitted' = << Event("initialized", UnsetWaveParameters, FALSE, 0, isInitialized) >>
  /\ isInitialized' = TRUE
  /\ published' = [published EXCEPT !.ready = @ + 1]
  /\ lastOp' = "initCallback"
  /\ args' = << >>
  /\ result' = Ok
  /\ sharedWithBridge' = TRUE
  /\ callerWaves' = << >>
  /\ UNCHANGED <<created, instance, waveParameters, mode, brightness, powerState,
                 handlerRegs, initCalls, wavesArray>>

\* the callback passed to init()
InitCallback ==
  /\ initCalls > 0
  /\ delivered.ready < MaxReady
  /\ delivered' = [delivered EXCEPT !.ready = @ + 1]
  /\ bridgeCalls' = << BridgeCall("setWaveParameters", waveParameters, FALSE, 0, isInitialized) >>
  /\ isInitialized' = TRUE
  /\ emitted' = << Event("initialized", UnsetWaveParameters, FALSE, 0, isInitialized') >>
  /\ published' = [published EXCEPT !.ready = @ + 1]
  /\ lastOp' = "initCallback"
  /\ args' = << >>
  /\ result' = Ok
  /\ sharedWithBridge' = TRUE
  /\ callerWaves' = << >>
  /\ UNCHANGED <<created, instance, waveParameters, mode, brightness, powerState,
                 handlerRegs, initCalls, wavesArray>>

\* a wave-parameter handler that emits but does not store
WaveParametersHandler_NoStore(newParameters) ==
  /\ handlerRegs.waveParameters > 0
  /\ NumDeliveries < MaxDeliveries
  /\ delivered' = [delivered EXCEPT !.waveParameters = Append(@, newParameters)]
  /\ emitted' = << Event("waveParametersUpdated", newParameters, FALSE, 0, isInitialized) >>
  /\ published' = [published EXCEPT !.waveParameters = Append(@, newParameters)]
  /\ lastOp' = "waveParametersHandler"
  /\ args' = << newParameters >>
  /\ result' = Ok
  /\ bridgeCalls' = << >>
  /\ callerWaves' = << >>
  /\ UNCHANGED <<created, instance, fields, handlerRegs, initCalls, refs>>

\* a wave-parameter handler that waits for the lifecycle
WaveParametersHandler_Gated(newParameters) ==
  /\ handlerRegs.waveParameters > 0
  /\ NumDeliveries < MaxDeliveries
  /\ delivered' = [delivered EXCEPT !.waveParameters = Append(@, newParameters)]
  /\ lastOp' = "waveParametersHandler"
  /\ args' = << newParameters >>
  /\ result' = Ok
  /\ bridgeCalls' = << >>
  /\ callerWaves' = << >>
  /\ IF isInitialized
       THEN /\ waveParameters' = newParameters
            /\ emitted' = << Event("waveParametersUpdated", waveParameters', FALSE, 0, isInitialized) >>
            /\ published' = [published EXCEPT !.waveParameters = Append(@, waveParameters')]
            /\ sharedWithBridge' \in BOOLEAN
            /\ wavesArray' = "inbound"
            /\ UNCHANGED <<created, instance, isInitialized, mode, brightness, powerState,
                           handlerRegs, initCalls>>
       ELSE /\ emitted' = << >>
            /\ UNCHANGED <<created, instance, fields, handlerRegs, initCalls, published, refs>>

\* the callback passed to listenForWaveParameterUpdates
WaveParametersHandler(newParameters) ==
  /\ handlerRegs.waveParameters > 0
  /\ NumDeliveries < MaxDeliveries
  /\ delivered' = [delivered EXCEPT !.waveParameters = Append(@, newParameters)]
  /\ waveParameters' = newParameters
  /\ emitted' = << Event("waveParametersUpdated", waveParameters', FALSE, 0, isInitialized) >>
  /\ published' = [published EXCEPT !.waveParameters = Append(@, waveParameters')]
  /\ lastOp' = "waveParametersHandler"
  /\ args' = << newParameters >>
  /\ result' = Ok
  /\ bridgeCalls' = << >>
  /\ sharedWithBridge' \in BOOLEAN
  /\ wavesArray' = "inbound"
  /\ callerWaves' = << >>
  /\ UNCHANGED <<created, instance, isInitialized, mode, brightness, powerState,
                 handlerRegs, initCalls>>

\* a power-state handler that emits before it stores
PowerStateHandler_EmitsFirst(newPowerState) ==
  /\ handlerRegs.powerState > 0
  /\ NumDeliveries < MaxDeliveries
  /\ delivered' = [delivered EXCEPT !.powerState = Append(@, newPowerState)]
  /\ emitted' = << Event("powerStateUpdated", UnsetWaveParameters, powerState, 0, isInitialized) >>
  /\ published' = [published EXCEPT !.powerState = Append(@, powerState)]
  /\ powerState' = newPowerState
  /\ lastOp' = "powerStateHandler"
  /\ args' = << newPowerState >>
  /\ result' = Ok
  /\ bridgeCalls' = << >>
  /\ callerWaves' = << >>
  /\ UNCHANGED <<created, instance, isInitialized, waveParameters, mode, brightness,
                 handlerRegs, initCalls, refs>>

\* the callback passed to listenForPowerStateUpdates
PowerStateHandler(newPowerState) ==
  /\ handlerRegs.powerState > 0
  /\ NumDeliveries < MaxDeliveries
  /\ delivered' = [delivered EXCEPT !.powerState = Append(@, newPowerState)]
  /\ powerState' = newPowerState
  /\ emitted' = << Event("powerStateUpdated", UnsetWaveParameters, powerState', 0, isInitialized) >>
  /\ published' = [published EXCEPT !.powerState = Append(@, powerState')]
  /\ lastOp' = "powerStateHandler"
  /\ args' = << newPowerState >>
  /\ result' = Ok
  /\ bridgeCalls' = << >>
  /\ callerWaves' = << >>
  /\ UNCHANGED <<created, instance, isInitialized, waveParameters, mode, brightness,
                 handlerRegs, initCalls, refs>>

\* a brightness handler that emits only when the value differs
BrightnessHandler_Coalescing(newBrightness) ==
  /\ handlerRegs.brightness > 0
  /\ NumDeliveries < MaxDeliveries
  /\ delivered' = [delivered EXCEPT !.brightness = Append(@, newBrightness)]
  /\ brightness' = newBrightness
  /\ IF newBrightness = brightness
       THEN emitted' = << >> /\ published' = published
       ELSE /\ emitted' = << Event("brightnessUpdated", UnsetWaveParameters, FALSE, brightness', isInitialized) >>
            /\ published' = [published EXCEPT !.brightness = Append(@, brightness')]
  /\ lastOp' = "brightnessHandler"
  /\ args' = << newBrightness >>
  /\ result' = Ok
  /\ bridgeCalls' = << >>
  /\ callerWaves' = << >>
  /\ UNCHANGED <<created, instance, isInitialized, waveParameters, mode, powerState,
                 handlerRegs, initCalls, refs>>

\* the callback passed to listenForBrightnessUpdates
BrightnessHandler(newBrightness) ==
  /\ handlerRegs.brightness > 0
  /\ NumDeliveries < MaxDeliveries
  /\ delivered' = [delivered EXCEPT !.brightness = Append(@, newBrightness)]
  /\ brightness' = newBrightness
  /\ emitted' = << Event("brightnessUpdated", UnsetWaveParameters, FALSE, brightness', isInitialized) >>
  /\ published' = [published EXCEPT !.brightness = Append(@, brightness')]
  /\ lastOp' = "brightnessHandler"
  /\ args' = << newBrightness >>
  /\ result' = Ok
  /\ bridgeCalls' = << >>
  /\ callerWaves' = << >>
  /\ UNCHANGED <<created, instance, isInitialized, waveParameters, mode, powerState,
                 handlerRegs, initCalls, refs>>

(* ---------------------------- public methods --------------------------- *)
\* a method that throws: nothing but the outcome changes
Throws(op, a, err) ==
  /\ lastOp' = op
  /\ args' = a
  /\ result' = err
  /\ bridgeCalls' = << >>
  /\ emitted' = << >>
  /\ callerWaves' = (IF op = "setWaveParameters" THEN a[1].waves ELSE << >>)
  /\ UNCHANGED <<created, instance, fields, bridge, published, refs>>

\* a method that only calls one bridge function
Forwards(op, a, call) ==
  /\ lastOp' = op
  /\ args' = a
  /\ result' = Ok
  /\ bridgeCalls' = << call >>
  /\ emitted' = << >>
  /\ callerWaves' = << >>
  /\ UNCHANGED <<created, instance, fields, bridge, published, refs>>

\* a start() without the lifecycle check
Start_Unguarded ==
  /\ instance
  /\ Forwards("start", << >>, BridgeCall("start", UnsetWaveParameters, FALSE, 0, isInitialized))

\* RVL.start
Start ==
  /\ instance
  /\ IF ~isInitialized
       THEN Throws("start", << >>, ErrNotInitialized)
       ELSE Forwards("start", << >>, BridgeCall("start", UnsetWaveParameters, FALSE, 0, isInitialized))

\* a stop() that also leaves the initialized state
Stop_Uninitializes ==
  /\ instance
  /\ IF ~isInitialized
       THEN Throws("stop", << >>, ErrNotInitialized)
       ELSE /\ lastOp' = "stop"
            /\ args' = << >>
            /\ result' = Ok
            /\ bridgeCalls' = << BridgeCall("stop", UnsetWaveParameters, FALSE, 0, isInitialized) >>
            /\ emitted' = << >>
            /\ callerWaves' = << >>
            /\ isInitialized' = FALSE
            /\ UNCHANGED <<created, instance, waveParameters, mode, brightness, powerState,
                           bridge, published, refs>>

\* a stop() that also goes back to the default wave parameters
Stop_RestoresDefaults ==
  /\ instance
  /\ IF ~isInitialized
       THEN Throws("stop", << >>, ErrNotInitialized)
       ELSE /\ lastOp' = "stop"
            /\ args' = << >>
            /\ result' = Ok
            /\ bridgeCalls' = << BridgeCall("stop", UnsetWaveParameters, FALSE, 0, isInitialized) >>
            /\ emitted' = << >>
            /\ callerWaves' = << >>
            /\ waveParameters' = createEmptyWaveParameters
            /\ UNCHANGED <<created, instance, isInitialized, mode, brightness, powerState,
                           bridge, published, refs>>

\* RVL.stop
Stop ==
  /\ instance
  /\ IF ~isInitialized
       THEN Throws("stop", << >>, ErrNotInitialized)
       ELSE Forwards("stop", << >>, BridgeCall("stop", UnsetWaveParameters, FALSE, 0, isInitialized))

\* the parameter defaults of setWaveParameters
DefaultPeriod(p, d) == IF p = Undefined THEN d ELSE p

\* a padding loop that stops one wave short
RECURSIVE PadWaves_OneShort(_)
PadWaves_OneShort(waves) ==
  IF Len(waves) < MAX_NUM_WAVES - 1
    THEN PadWaves_OneShort(Append(waves, createEmptyWave))
    ELSE waves

\* `waves = [ ...waves ]` and the loop that pushes empty waves until the
\* array is full
RECURSIVE PadWaves(_)
PadWaves(waves) ==
  IF Len(waves) < MAX_NUM_WAVES
    THEN PadWaves(Append(waves, createEmptyWave))
    ELSE waves

\* the object setWaveParameters stores
NormalizedParameters(p) ==
  [waves |-> PadWaves(p.waves),
   timePeriod |-> DefaultPeriod(p.timePeriod, DEFAULT_TIME_PERIOD),
   distancePeriod |-> DefaultPeriod(p.distancePeriod, DEFAULT_DISTANCE_PERIOD)]

\* the arrays a call of setWaveParameters works on: the caller's, the clone,
\* and which of the two the parameter `waves` names
CallHeap(p) == [caller |-> p.waves, copy |-> << >>, waves |-> "caller"]

\* no clone: `waves` goes on naming the caller's array
CloneWaves_Alias(h) == h

\* `waves = [ ...waves ]`
CloneWaves(h) == [h EXCEPT !.copy = h[h.waves], !.waves = "copy"]

\* the loop pushes onto the array `waves` names
PushEmptyWaves(h) == [h EXCEPT ![h.waves] = PadWaves(@)]

\* the arrays when setWaveParameters builds the object it stores
HeapAtStore(p) == PushEmptyWaves(CloneWaves(CallHeap(p)))

\* a store that also emits waveParametersUpdated
StoreAndPush_Emitting(p) ==
  /\ waveParameters' = NormalizedParameters(p)
  /\ bridgeCalls' = << BridgeCall("setWaveParameters", waveParameters', FALSE, 0, isInitialized) >>
  /\ lastOp' = "setWaveParameters"
  /\ args' = << p >>
  /\ result' = Ok
  /\ emitted' = << Event("waveParametersUpdated", waveParameters', FALSE, 0, isInitialized) >>
  /\ published' = [published EXCEPT !.waveParameters = Append(@, waveParameters')]
  /\ callerWaves' = HeapAtStore(p).caller
  /\ wavesArray' = HeapAtStore(p).waves
  /\ sharedWithBridge' = TRUE
  /\ UNCHANGED <<created, instance, isInitialized, mode, brightness, powerState, bridge>>

\* a store of the caller's waves as they came, without the padding loop
StoreAndPush_Unpadded(p) ==
  /\ waveParameters' = [NormalizedParameters(p) EXCEPT !.waves = p.waves]
  /\ bridgeCalls' = << BridgeCall("setWaveParameters", waveParameters', FALSE, 0, isInitialized) >>
  /\ lastOp' = "setWaveParameters"
  /\ args' = << p >>
  /\ result' = Ok
  /\ emitted' = << >>
  /\ callerWaves' = p.waves
  /\ wavesArray' = "copy"
  /\ sharedWithBridge' = TRUE
  /\ UNCHANGED <<created, instance, isInitialized, mode, brightness, powerState,
                 bridge, published>>

\* setWaveParameters past its three checks: store the normalized object and
\* pass it to the bridge
StoreAndPush(p) ==
  /\ waveParameters' = NormalizedParameters(p)
  /\ bridgeCalls' = << BridgeCall("setWaveParameters", waveParameters', FALSE, 0, isInitialized) >>
  /\ lastOp' = "setWaveParameters"
  /\ args' = << p >>
  /\ result' = Ok
  /\ emitted' = << >>
  /\ callerWaves' = HeapAtStore(p).caller
  /\ wavesArray' = HeapAtStore(p).waves
  /\ sharedWithBridge' = TRUE
  /\ UNCHANGED <<created, instance, isInitialized, mode, brightness, powerState,
                 bridge, published>>

\* a setWaveParameters without the role check
SetWaveParameters_AnyRole(p) ==
  /\ instance
  /\ IF ~isInitialized
       THEN Throws("setWaveParameters", << p >>, ErrNotInitialized)
       ELSE IF Len(p.waves) > MAX_NUM_WAVES
         THEN Throws("setWaveParameters", << p >>, ErrTooManyWaves)
         ELSE StoreAndPush(p)

\* a setWaveParameters whose length check is off by one
SetWaveParameters_OneMore(p) ==
  /\ instance
  /\ IF ~isInitialized
       THEN Throws("setWaveParameters", << p >>, ErrNotInitialized)
       ELSE IF mode # "controller"
         THEN Throws("setWaveParameters", << p >>, ErrWrongRole)
         ELSE IF Len(p.waves) > MAX_NUM_WAVES + 1
           THEN Throws("setWaveParameters", << p >>, ErrTooManyWaves)
           ELSE StoreAndPush(p)

\* RVL.setWaveParameters
SetWaveParameters(p) ==
  /\ instance
  /\ IF ~isInitialized
       THEN Throws("setWaveParameters", << p >>, ErrNotInitialized)
       ELSE IF mode # "controller"
         THEN Throws("setWaveParameters", << p >>, ErrWrongRole)
         ELSE IF Len(p.waves) > MAX_NUM_WAVES
           THEN Throws("setWaveParameters", << p >>, ErrTooManyWaves)
           ELSE StoreAndPush(p)

\* a setPowerState that is gated like start()
SetPowerState_Guarded(newPowerState) ==
  /\ instance
  /\ IF ~isInitialized
       THEN Throws("setPowerState", << newPowerState >>, ErrNotInitialized)
       ELSE Forwards("setPowerState", << newPowerState >>,
                     BridgeCall("setPowerState", UnsetWaveParameters, newPowerState, 0, isInitialized))

\* RVL.setPowerState
SetPowerState(newPowerState) ==
  /\ instance
  /\ Forwards("setPowerState", << newPowerState >>,
              BridgeCall("setPowerState", UnsetWaveParameters, newPowerState, 0, isInitialized))

\* RVL.setBrightness
SetBrightness(newBrightness) ==
  /\ instance
  /\ Forwards("setBrightness", << newBrightness >>,
              BridgeCall("setBrightness", UnsetWaveParameters, FALSE, newBrightness, isInitialized))

(* --------------------------- specification ----------------------------- *)
Next ==
  \/ \E m \in ModeArgs : Construct(m)
  \/ InitCallback
  \/ \E v \in InboundWaveParameters : WaveParametersHandler(v)
  \/ \E b \in BOOLEAN : PowerStateHandler(b)
  \/ \E n \in BrightnessValues : BrightnessHandler(n)
  \/ Start
  \/ Stop
  \/ \E p \in InputParameters : SetWaveParameters(p)
  \/ \E b \in BOOLEAN : SetPowerState(b)
  \/ \E n \in BrightnessValues : SetBrightness(n)

Spec == Init /\ [][Next]_vars

(* ------------- a bridge that calls back at once, or raises ------------- *)
\* the message of whatever a bridge function raises
ErrBridge == "raised by the bridge"

\* the bridge calls of the constructor, in the order it makes them
ConstructorCalls ==
  << BridgeCall("listenForWaveParameterUpdates", UnsetWaveParameters, FALSE, 0, FALSE),
     BridgeCall("listenForPowerStateUpdates", UnsetWaveParameters, FALSE, 0, FALSE),
     BridgeCall("listenForBrightnessUpdates", UnsetWaveParameters, FALSE, 0, FALSE),
     BridgeCall("init", UnsetWaveParameters, FALSE, 0, FALSE) >>

\* a constructor that sets `created` only once it is through
ConstructRaises_GuardSetLast(m, k) ==
  /\ ~created
  /\ created' = FALSE
  /\ mode' = DefaultMode(m)
  /\ waveParameters' = createEmptyWaveParameters
  /\ handlerRegs' = [waveParameters |-> IF k > 1 THEN 1 ELSE 0,
                     powerState |-> IF k > 2 THEN 1 ELSE 0,
                     brightness |-> IF k > 3 THEN 1 ELSE 0]
  /\ bridgeCalls' = SubSeq(ConstructorCalls, 1, k)
  /\ instance' = FALSE
  /\ result' = ErrBridge
  /\ lastOp' = "constructor"
  /\ args' = << m >>
  /\ emitted' = << >>
  /\ callerWaves' = << >>
  /\ sharedWithBridge' = FALSE
  /\ wavesArray' = "created"
  /\ UNCHANGED <<isInitialized, brightness, powerState, initCalls, delivered, published>>

\* new RVL({ mode: m, ... }) when the k-th bridge call of the constructor
\* raises: the error leaves the constructor, no object is returned, the calls
\* before the k-th have been made and `created` has been set
ConstructRaises(m, k) ==
  /\ ~created
  /\ created' = TRUE
  /\ mode' = DefaultMode(m)
  /\ waveParameters' = createEmptyWaveParameters
  /\ handlerRegs' = [waveParameters |-> IF k > 1 THEN 1 ELSE 0,
                     powerState |-> IF k > 2 THEN 1 ELSE 0,
                     brightness |-> IF k > 3 THEN 1 ELSE 0]
  /\ bridgeCalls' = SubSeq(ConstructorCalls, 1, k)
  /\ instance' = FALSE
  /\ result' = ErrBridge
  /\ lastOp' = "constructor"
  /\ args' = << m >>
  /\ emitted' = << >>
  /\ callerWaves' = << >>
  /\ sharedWithBridge' = FALSE
  /\ wavesArray' = "created"
  /\ UNCHANGED <<isInitialized, brightness, powerState, initCalls, delivered, published>>

\* the callback passed to init(), when the bridge's setWaveParameters calls
\* the wave-parameter handler with newParameters before it returns
InitCallbackWithEcho(newParameters) ==
  /\ initCalls > 0
  /\ handlerRegs.waveParameters > 0
  /\ delivered.ready < MaxReady
  /\ NumDeliveries < MaxDeliveries
  /\ delivered' = [delivered EXCEPT !.ready = @ + 1,
                                    !.waveParameters = Append(@, newParameters)]
  /\ bridgeCalls' = << BridgeCall("setWaveParameters", waveParameters, FALSE, 0, isInitialized) >>
  /\ waveParameters' = newParameters
  /\ isInitialized' = TRUE
  /\ emitted' = << Event("waveParametersUpdated", waveParameters', FALSE, 0, isInitialized),
                   Event("initialized", UnsetWaveParameters, FALSE, 0, isInitialized') >>
  /\ published' = [published EXCEPT !.ready = @ + 1,
                                    !.waveParameters = Append(@, waveParameters')]
  /\ lastOp' = "initCallback"
  /\ args' = << >>
  /\ result' = Ok
  /\ sharedWithBridge' \in BOOLEAN
  /\ wavesArray' = "inbound"
  /\ callerWaves' = << >>
  /\ UNCHANGED <<created, instance, mode, brightness, powerState, handlerRegs, initCalls>>

NextFull ==
  \/ Next
  \/ \E m \in ModeArgs, k \in 1..4 : ConstructRaises(m, k)
  \/ \E v \in InboundWaveParameters : InitCallbackWithEcho(v)

SpecFull == Init /\ [][NextFull]_vars


(* ------------------------------ properties ----------------------------- *)
\* the step is a call of one of the three guarded methods
GuardedCall == lastOp' \in {"start", "stop", "setWaveParameters"}

\* the step is a call of setWaveParameters on an initialized controller
ControllerSetsWaves ==
  lastOp' = "setWaveParameters" /\ instance /\ isInitialized /\ mode = "controller"

\* calls holds exactly one call, of the bridge function op
OnlyBridgeCall(calls, op) == Len(calls) = 1 /\ calls[1].op = op

\* events holds exactly one event, ev
OnlyEvent(events, ev) == Len(events) = 1 /\ events[1].ev = ev

\* C1: while the instance is uninitialized, start(), stop() and
\* setWaveParameters(p) throw the not-initialized error for every role and
\* input, call no bridge function and leave every field as it was.
C1_NotInitializedRejected ==
  [][(instance /\ ~isInitialized /\ GuardedCall)
       => (/\ result' = ErrNotInitialized
           /\ bridgeCalls' = << >>
           /\ UNCHANGED fields)]_vars

C1_Witness ==
  /\ lastOp = "setWaveParameters"
  /\ mode = "controller"
  /\ Len(args[1].waves) = 2
  /\ ~isInitialized
  /\ result = ErrNotInitialized
  /\ bridgeCalls = << >>

\* C2 as stated: setWaveParameters on a receiver throws the wrong-role error
\* in both lifecycle states and for every input.
C2_ReceiverAlwaysWrongRole ==
  (lastOp = "setWaveParameters" /\ mode = "receiver") => result = ErrWrongRole

\* C2 amended: setWaveParameters on a receiver throws for every input, the
\* wrong-role error once initialized and the not-initialized error before.
C2_ReceiverAlwaysRejected ==
  (lastOp = "setWaveParameters" /\ mode = "receiver")
    => /\ result = (IF isInitialized THEN ErrWrongRole ELSE ErrNotInitialized)
       /\ bridgeCalls = << >>

C2_Witness ==
  /\ lastOp = "setWaveParameters"
  /\ mode = "receiver"
  /\ isInitialized
  /\ Len(args[1].waves) = 1
  /\ result = ErrWrongRole

\* C3: on an initialized controller every input with more than
\* MAX_NUM_WAVES waves is rejected with the too-many-waves error, the stored
\* waveParameters stay what they were and nothing is pushed to the bridge.
C3_TooManyWavesRejected ==
  [][(ControllerSetsWaves /\ Len(args'[1].waves) > MAX_NUM_WAVES)
       => (/\ result' = ErrTooManyWaves
           /\ waveParameters' = waveParameters
           /\ bridgeCalls' = << >>)]_vars

C3_Witness ==
  /\ lastOp = "setWaveParameters"
  /\ Len(args[1].waves) = MAX_NUM_WAVES + 1
  /\ result = ErrTooManyWaves
  /\ waveParameters # createEmptyWaveParameters
  /\ bridgeCalls = << >>

\* C4: on an initialized controller every input with at most MAX_NUM_WAVES
\* waves is stored with exactly MAX_NUM_WAVES waves: the input waves in
\* order, then empty waves; the periods are the supplied ones or, when left
\* out, the defaults.
C4_StoredValueNormalized ==
  [][(ControllerSetsWaves /\ Len(args'[1].waves) <= MAX_NUM_WAVES)
       => LET p == args'[1]
              stored == waveParameters'
          IN  /\ result' = Ok
              /\ Len(stored.waves) = MAX_NUM_WAVES
              /\ \A i \in 1..Len(p.waves) : stored.waves[i] = p.waves[i]
              /\ \A i \in (Len(p.waves) + 1)..MAX_NUM_WAVES :
                    stored.waves[i] = createEmptyWave
              /\ stored.timePeriod =
                    (IF p.timePeriod = Undefined THEN DEFAULT_TIME_PERIOD ELSE p.timePeriod)
              /\ stored.distancePeriod =
                    (IF p.distancePeriod = Undefined THEN DEFAULT_DISTANCE_PERIOD
                                                     ELSE p.distancePeriod)]_vars

C4_Witness ==
  /\ lastOp = "setWaveParameters"
  /\ result = Ok
  /\ args[1].waves = <<1, 2>>
  /\ waveParameters.waves = <<1, 2, 0, 0, 0, 0, 0, 0>>
  /\ waveParameters.timePeriod = DEFAULT_TIME_PERIOD
  /\ waveParameters.distancePeriod = 7

\* C5: the `initialized` event is emitted at most once, also when the bridge
\* delivers its ready signal a second time.
C5_InitializedEmittedOnce == published.ready <= 1

\* C6: while an instance exists, a further construction throws the
\* already-created error and changes nothing of the instance: its fields
\* stay, no receive handler is registered again and init is not called again.
C6_SecondConstructionRejected ==
  [][(instance /\ lastOp' = "constructor")
       => (/\ result' = ErrAlreadyCreated
           /\ UNCHANGED fields
           /\ UNCHANGED <<handlerRegs, initCalls>>
           /\ bridgeCalls' = << >>
           /\ instance')]_vars

C6_Witness ==
  /\ lastOp = "constructor"
  /\ result = ErrAlreadyCreated
  /\ args = << "controller" >>
  /\ mode = "receiver"
  /\ isInitialized
  /\ powerState
  /\ initCalls = 1

\* C7: a receive handler invoked with v sets its field to v and emits one
\* event of its kind with payload v, leaving the other two fields alone; the
\* field then keeps v until its next update.
C7_HandlerStoresAndEmits ==
  [][/\ lastOp' = "waveParametersHandler"
         => /\ waveParameters' = args'[1]
            /\ OnlyEvent(emitted', "waveParametersUpdated")
            /\ emitted'[1].wp = args'[1]
            /\ UNCHANGED <<powerState, brightness>>
     /\ lastOp' = "powerStateHandler"
         => /\ powerState' = args'[1]
            /\ OnlyEvent(emitted', "powerStateUpdated")
            /\ emitted'[1].b = args'[1]
            /\ UNCHANGED <<waveParameters, brightness>>
     /\ lastOp' = "brightnessHandler"
         => /\ brightness' = args'[1]
            /\ OnlyEvent(emitted', "brightnessUpdated")
            /\ emitted'[1].n = args'[1]
            /\ UNCHANGED <<waveParameters, powerState>>
     /\ (instance /\ waveParameters' # waveParameters)
         => lastOp' \in {"waveParametersHandler", "setWaveParameters"}
     /\ powerState' # powerState => lastOp' = "powerStateHandler"
     /\ brightness' # brightness => lastOp' = "brightnessHandler"]_vars

C7_Witness ==
  /\ lastOp = "powerStateHandler"
  /\ args = << TRUE >>
  /\ powerState = TRUE
  /\ OnlyEvent(emitted, "powerStateUpdated")
  /\ emitted[1].b = TRUE

\* C8: per event kind, the payloads emitted so far are the values the bridge
\* has delivered to the matching handler so far: same order, same count.
C8_EmittedInDeliveryOrder ==
  /\ published.waveParameters = delivered.waveParameters
  /\ published.powerState = delivered.powerState
  /\ published.brightness = delivered.brightness

C8_Witness ==
  /\ Len(delivered.brightness) = 2
  /\ delivered.brightness[1] = delivered.brightness[2]
  /\ lastOp = "setBrightness"
  /\ published.brightness = delivered.brightness

\* C9: a successful setWaveParameters stores the normalized value, pushes
\* that same value to the bridge exactly once and emits nothing; a
\* waveParametersUpdated event comes only from the receive handler.
C9_OwnWritePushedNotEmitted ==
  [][/\ (ControllerSetsWaves /\ Len(args'[1].waves) <= MAX_NUM_WAVES)
          => (/\ waveParameters'.waves =
                    args'[1].waves \o SubSeq(createEmptyWaveParameters.waves,
                                             Len(args'[1].waves) + 1, MAX_NUM_WAVES)
              /\ OnlyBridgeCall(bridgeCalls', "setWaveParameters")
              /\ bridgeCalls'[1].wp = waveParameters'
              /\ emitted' = << >>
              /\ published' = published)
     /\ (\E i \in 1..Len(emitted') : emitted'[i].ev = "waveParametersUpdated")
          => lastOp' = "waveParametersHandler"]_vars

C9_Witness ==
  /\ lastOp = "setWaveParameters"
  /\ result = Ok
  /\ OnlyBridgeCall(bridgeCalls, "setWaveParameters")
  /\ bridgeCalls[1].wp = waveParameters
  /\ waveParameters.waves[1] = 2
  /\ emitted = << >>
  /\ published.waveParameters = << >>

\* C10: setPowerState(b) and setBrightness(n) pass the value to the bridge in
\* every lifecycle state and role, never throw, and change no field; the
\* powerState and brightness fields change only in their receive handlers.
C10_PowerAndBrightnessPassThrough ==
  [][/\ (instance /\ lastOp' = "setPowerState")
          => (/\ result' = Ok
              /\ OnlyBridgeCall(bridgeCalls', "setPowerState")
              /\ bridgeCalls'[1].b = args'[1]
              /\ UNCHANGED fields)
     /\ (instance /\ lastOp' = "setBrightness")
          => (/\ result' = Ok
              /\ OnlyBridgeCall(bridgeCalls', "setBrightness")
              /\ bridgeCalls'[1].n = args'[1]
              /\ UNCHANGED fields)
     /\ powerState' # powerState => lastOp' = "powerStateHandler"
     /\ brightness' # brightness => lastOp' = "brightnessHandler"]_vars

C10_Witness ==
  /\ lastOp = "setPowerState"
  /\ args = << TRUE >>
  /\ ~isInitialized
  /\ mode = "receiver"
  /\ OnlyBridgeCall(bridgeCalls, "setPowerState")
  /\ bridgeCalls[1].b = TRUE
  /\ powerState = FALSE

\* C11 as stated: on the ready signal the coordinator pushes the default wave
\* parameters created at construction, whatever the bridge has delivered
\* since; the push comes before the lifecycle change, the emit after it.
C11_ReadyPushesDefaults ==
  (lastOp = "initCallback" /\ delivered.ready = 1)
    => /\ OnlyBridgeCall(bridgeCalls, "setWaveParameters")
       /\ bridgeCalls[1].wp = createEmptyWaveParameters
       /\ ~bridgeCalls[1].init
       /\ OnlyEvent(emitted, "initialized")
       /\ emitted[1].init

\* C11 amended: on the ready signal the coordinator pushes its current wave
\* parameters, which are the defaults created at construction unless they
\* have been replaced since; the push comes before the lifecycle is set to
\* initialized, the emit of `initialized` after it.
C11_ReadyPushesCurrent ==
  [][lastOp' = "initCallback"
       => /\ OnlyBridgeCall(bridgeCalls', "setWaveParameters")
          /\ bridgeCalls'[1].wp = waveParameters
          /\ wavesArray = "created" => bridgeCalls'[1].wp = createEmptyWaveParameters
          /\ bridgeCalls'[1].init = isInitialized
          /\ isInitialized'
          /\ OnlyEvent(emitted', "initialized")
          /\ emitted'[1].init]_vars

C11_Witness ==
  /\ lastOp = "initCallback"
  /\ delivered.ready = 1
  /\ Len(delivered.waveParameters) = 1
  /\ OnlyBridgeCall(bridgeCalls, "setWaveParameters")
  /\ bridgeCalls[1].wp = delivered.waveParameters[1]
  /\ ~bridgeCalls[1].init
  /\ emitted[1].init

\* C12: the lifecycle goes from uninitialized to initialized only in the init
\* callback, and no operation, failed construction or notification takes it
\* back: once initialized, it stays initialized, also after stop().
C12_LifecycleOneWay ==
  [][/\ isInitialized => isInitialized'
     /\ isInitialized' # isInitialized => lastOp' = "initCallback"]_vars

C12_Witness ==
  /\ isInitialized
  /\ lastOp = "stop"
  /\ result = Ok
  /\ OnlyBridgeCall(bridgeCalls, "stop")

C14_LastWriteWins ==
  [][instance
       => IF lastOp' = "waveParametersHandler"
            THEN waveParameters' = args'[1]
            ELSE IF lastOp' = "setWaveParameters" /\ result' = Ok
              THEN waveParameters' = NormalizedParameters(args'[1])
              ELSE waveParameters' = waveParameters]_vars

C14_Witness ==
  /\ lastOp = "setWaveParameters"
  /\ result = Ok
  /\ Len(delivered.waveParameters) = 1
  /\ waveParameters # delivered.waveParameters[1]
  /\ Len(args[1].waves) = 2
  /\ SubSeq(waveParameters.waves, 1, 2) = args[1].waves

\* C15: the object _waveParameters names is never one the bridge has a
\* reference to: what is pushed is another object, and what is stored from a
\* notification is not the bridge's object.
C15_BridgeNeverSharesState ==
  instance => ~sharedWithBridge

\* C16: setWaveParameters leaves the caller's array as it was, whether it
\* succeeds or throws, and the array it stores is not the caller's: the empty
\* waves are pushed onto the copy.
C16_InputNotMutated ==
  lastOp = "setWaveParameters"
    => /\ callerWaves = args[1].waves
       /\ wavesArray # "caller"
       /\ result = Ok => (wavesArray = "copy" /\ Len(callerWaves) <= Len(waveParameters.waves))

C16_Witness ==
  /\ lastOp = "setWaveParameters"
  /\ result = Ok
  /\ callerWaves = <<2, 0, 1>>
  /\ wavesArray = "copy"
  /\ Len(waveParameters.waves) = MAX_NUM_WAVES

\* C17: a start() or stop() on an initialized instance makes exactly one
\* bridge call, start or stop, and changes no field; stop() does not put the
\* default wave parameters back.
C17_StartStopOnlyForward ==
  [][(instance /\ isInitialized /\ lastOp' \in {"start", "stop"})
       => (/\ result' = Ok
           /\ OnlyBridgeCall(bridgeCalls', lastOp')
           /\ emitted' = << >>
           /\ UNCHANGED fields)]_vars

C17_Witness ==
  /\ lastOp = "stop"
  /\ result = Ok
  /\ waveParameters # createEmptyWaveParameters
  /\ wavesArray = "copy"
  /\ powerState

\* C18: `initialized` is emitted with the lifecycle already initialized, so
\* start(), stop() and (controller, input within capacity) setWaveParameters
\* called by a listener of it, which sees the state the callback ends in,
\* succeed; a waveParametersUpdated emitted during the push of the ready
\* signal that initializes is emitted with the lifecycle still uninitialized.
C18_ListenerSeesLifecycle ==
  [][/\ lastOp' = "initCallback"
         => \A i \in 1..Len(emitted') :
              /\ emitted'[i].ev = "initialized" => emitted'[i].init
              /\ (emitted'[i].ev = "waveParametersUpdated" /\ ~isInitialized)
                    => ~emitted'[i].init
     /\ (lastOp = "initCallback" /\ lastOp' \in {"start", "stop"}) => result' = Ok
     /\ (/\ lastOp = "initCallback"
         /\ lastOp' = "setWaveParameters"
         /\ mode = "controller"
         /\ Len(args'[1].waves) <= MAX_NUM_WAVES) => result' = Ok]_vars

C18_Witness ==
  /\ lastOp = "initCallback"
  /\ delivered.ready = 1
  /\ Len(emitted) = 2
  /\ emitted[1].ev = "waveParametersUpdated" /\ ~emitted[1].init
  /\ emitted[2].ev = "initialized" /\ emitted[2].init

\* C19: the constructor registers the three receive handlers before it
\* calls init, and a notification delivered to an uninitialized instance or
\* to a receiver is stored and emitted like any other.
C19_HandlersNotGated ==
  [][/\ (lastOp' = "constructor" /\ result' = Ok) => bridgeCalls' = ConstructorCalls
     /\ (instance /\ (~isInitialized \/ mode = "receiver"))
         => /\ lastOp' = "waveParametersHandler"
                => /\ waveParameters' = args'[1]
                   /\ OnlyEvent(emitted', "waveParametersUpdated")
                   /\ emitted'[1].wp = args'[1]
            /\ lastOp' = "powerStateHandler"
                => /\ powerState' = args'[1]
                   /\ OnlyEvent(emitted', "powerStateUpdated")
                   /\ emitted'[1].b = args'[1]
            /\ lastOp' = "brightnessHandler"
                => /\ brightness' = args'[1]
                   /\ OnlyEvent(emitted', "brightnessUpdated")
                   /\ emitted'[1].n = args'[1]]_vars

C19_Witness ==
  /\ instance
  /\ lastOp = "waveParametersHandler"
  /\ ~isInitialized
  /\ mode = "receiver"
  /\ waveParameters = args[1]
  /\ OnlyEvent(emitted, "waveParametersUpdated")
  /\ ~emitted[1].init

\* C20: `created` is set by the first construction that gets past the check,
\* also when that construction then fails in a bridge call, and is never
\* cleared: every later construction throws the already-created error.
C20_GuardNeverCleared ==
  [][/\ created => created'
     /\ lastOp' = "constructor" => created'
     /\ (created /\ lastOp' = "constructor")
         => (result' = ErrAlreadyCreated /\ instance' = instance)]_vars

C20_Witness ==
  /\ created
  /\ ~instance
  /\ lastOp = "constructor"
  /\ result = ErrAlreadyCreated
====
